---- MODULE Spec2Model ----
(***************************************************************************)
(* gotes: one run of main() synchronises a notes directory with a remote   *)
(* repository.  The model follows main.go statement by statement.  The     *)
(* version-control engine (go-git), the file system and the JSON decoder   *)
(* are the environment: every call into them is an operation whose outcome *)
(* is chosen among the results the library can return in the current       *)
(* state of the repository.                                                *)
(***************************************************************************)
EXTENDS Integers, Sequences, FiniteSets, TLC

VARIABLES
    pc,         \* position of main(): the statement group about to execute
    run,        \* number of the current invocation of the program
    cfgFile,    \* ~/gotes-config.json as found on disk
    hostname,   \* what os.Hostname() returns on this machine
    config,     \* main's `config` (type Config)
    err,        \* main's `err` variable
    dirExists,  \* the directory the notes path resolves to exists
    repo,       \* the on-disk repository in that directory
    start,      \* the directory and repository as they were when the run began,
                \* how the previous run's commit step went and whether the
                \* notes were edited since
    ops,        \* external operations invoked in this run, in order, with results
    calls,      \* helper functions called by main in this run, with return values
    log,        \* labels of the lines printed to standard output in this run
    trace       \* positions of main() visited in this run

vars == <<pc, run, cfgFile, hostname, config, err, dirExists, repo, start,
          ops, calls, log, trace>>

\* Number of successive invocations of the program that are explored.
MaxRuns == 2

(***************************************************************************)
(* Values                                                                  *)
(***************************************************************************)
Nil == "nil"

ErrRepositoryNotExists == "repository does not exist"
NoErrAlreadyUpToDate == "already up-to-date"
ErrEmptyRemote == "remote repository is empty"
ErrIsBareRepository == "worktree not available in a bare repository"

Hostnames == {"host1"}

KeyUrl == "github_repo_url"
KeyDir == "notes_directory"
KeyBranch == "branch_name"
Keys == {KeyUrl, KeyDir, KeyBranch}

ValuesOf(k) ==
    IF k = KeyUrl THEN {"url1"}
    ELSE IF k = KeyDir THEN {"notes"}
    ELSE {"work"}

\* A JSON object: a function from the keys it contains to their string values.
Docs ==
    { d \in UNION { [K -> {"url1", "notes", "work"}] : K \in SUBSET Keys } :
        \A k \in DOMAIN d : d[k] \in ValuesOf(k) }

NoDoc == CHOOSE d \in Docs : DOMAIN d = {}

\* The file as a run finds it; a document that parses lacks at most one key.
ConfigFiles ==
    { [status |-> s, doc |-> NoDoc] : s \in {"missing", "unreadable", "malformed"} }
    \cup { [status |-> "ok", doc |-> d] :
             d \in { dd \in Docs : Cardinality(Keys \ DOMAIN dd) <= 1 } }

\* The zero value of type Config.
ZeroConfig == [GithubRepoUrl |-> "", NotesDirectory |-> "", BranchName |-> ""]

Op(o, a1, a2, res) == [op |-> o, a1 |-> a1, a2 |-> a2, res |-> res]

Call(f, ret) == [fn |-> f, ret |-> ret]

(***************************************************************************)
(* Repositories                                                            *)
(***************************************************************************)
BranchNames == {"master", "work"}

OldCommit == [msg |-> <<"first notes">>, name |-> "Someone",
              email |-> "someone@example.org", branch |-> "master"]

RemoteCommit(b) == [msg |-> <<"from remote">>, name |-> "Someone",
                    email |-> "someone@example.org", branch |-> b]

NoRepo == [exists |-> FALSE, bare |-> FALSE, remotes |-> {}, head |-> "master",
           branches |-> {}, commits |-> <<>>, dirty |-> FALSE]

\* A directory that already holds notes but no repository: once a repository
\* is initialized there, the notes are uncommitted changes.
NotesWithoutRepo == [NoRepo EXCEPT !.dirty = TRUE]

\* What git.PlainInit(path, false) leaves on disk: a non-bare repository with
\* no remote, no commit and HEAD on the unborn branch master.
FreshRepo == [exists |-> TRUE, bare |-> FALSE, remotes |-> {}, head |-> "master",
              branches |-> {}, commits |-> <<>>, dirty |-> FALSE]

Remote(n, u) == [name |-> n, url |-> u]

\* Repositories a run may find in the notes directory.
ExistingRepos ==
    { [exists |-> TRUE, bare |-> b, remotes |-> rs, head |-> h,
       branches |-> bs, commits |-> cs, dirty |-> d] :
        b \in BOOLEAN,
        rs \in {{}, {Remote("origin", "url0")}},
        h \in {"master", "work"},
        bs \in SUBSET BranchNames,
        cs \in {<<>>, <<OldCommit>>},
        d \in BOOLEAN }

WellFormedRepo(rp) ==
    /\ (rp.commits = <<>>) <=> (rp.branches = {})
    /\ rp.commits # <<>> => rp.head \in rp.branches /\ "master" \in rp.branches
    /\ rp.commits = <<>> => rp.head = "master"
    \* A bare repository has no working tree; one shape of it is explored.
    /\ rp.bare => ~rp.dirty /\ rp.head = "master" /\ rp.branches \subseteq {"master"}
                  /\ rp.remotes # {}

HasOrigin(rp) == \E rm \in rp.remotes : rm.name = "origin"

(***************************************************************************)
(* loadConfig                                                              *)
(***************************************************************************)
\* json.Unmarshal into a Config: a key of the document sets its field, a
\* field whose key is absent keeps the zero value.
Unmarshal(doc) ==
    [GithubRepoUrl  |-> IF KeyUrl \in DOMAIN doc THEN doc[KeyUrl] ELSE "",
     NotesDirectory |-> IF KeyDir \in DOMAIN doc THEN doc[KeyDir] ELSE "",
     BranchName     |-> IF KeyBranch \in DOMAIN doc THEN doc[KeyBranch] ELSE ""]

loadConfig(file) ==
    IF file.status \in {"missing", "unreadable"}
    THEN [config |-> ZeroConfig, err |-> "read error",
          ops |-> <<Op("ReadFile", "gotes-config.json", "", "read error")>>]
    ELSE IF file.status = "malformed"
    THEN [config |-> ZeroConfig, err |-> "syntax error",
          ops |-> <<Op("ReadFile", "gotes-config.json", "", Nil),
                    Op("Unmarshal", "", "", "syntax error")>>]
    ELSE [config |-> Unmarshal(file.doc), err |-> Nil,
          ops |-> <<Op("ReadFile", "gotes-config.json", "", Nil),
                    Op("Unmarshal", "", "", Nil)>>]

(***************************************************************************)
(* What a run remembers of the run before it                               *)
(***************************************************************************)
\* Before the first run there is no previous run.
NoPrev == [ran |-> FALSE, head |-> "", commitOk |-> FALSE, edited |-> FALSE]

\* autoCommit was called in a run's calls and returned no error.
CommitSucceeded(cs) ==
    \E i \in 1..Len(cs) : cs[i].fn = "autoCommit" /\ cs[i].ret = Nil

\* The branch checked out when a run begins; a repository the run has to
\* initialize begins on PlainInit's default branch.
StartHeadOf(st) == IF st.repo.exists THEN st.repo.head ELSE FreshRepo.head

(***************************************************************************)
(* Initial state                                                           *)
(***************************************************************************)
Init ==
    /\ pc = "loadConfig"
    /\ run = 1
    /\ cfgFile \in ConfigFiles
    /\ hostname \in Hostnames
    /\ config = ZeroConfig
    /\ err = Nil
    /\ dirExists \in BOOLEAN
    /\ repo \in {NoRepo, NotesWithoutRepo}
                \cup { rp \in ExistingRepos : WellFormedRepo(rp) }
    /\ (repo.exists \/ repo.dirty) => dirExists
    \* An empty notes path resolves to the process's working directory.
    /\ (cfgFile.status = "ok" /\ KeyDir \notin DOMAIN cfgFile.doc) => dirExists
    /\ start = [dirExists |-> dirExists, repo |-> repo, prev |-> NoPrev]
    /\ ops = <<>>
    /\ calls = <<>>
    /\ log = <<>>
    /\ trace = <<"loadConfig">>

(***************************************************************************)
(* main, lines 23-27                                                       *)
(***************************************************************************)
\* A loader whose failure main ignores.
AfterLoadConfig_IgnoreError(e) == "statDir"

\* The process killed on a configuration error instead of returning.
AfterLoadConfig_Fatal(e) == IF e # Nil THEN "exit" ELSE "statDir"

AfterLoadConfig(e) == IF e # Nil THEN "done" ELSE "statDir"

LoadConfigStep ==
    /\ pc = "loadConfig"
    /\ LET res == loadConfig(cfgFile)
           next == AfterLoadConfig(res.err)
       IN /\ config' = res.config
          /\ err' = res.err
          /\ ops' = ops \o res.ops
          /\ calls' = Append(calls, Call("loadConfig", res.err))
          /\ log' = IF res.err # Nil THEN Append(log, "Configuration Error") ELSE log
          /\ pc' = next
          /\ trace' = Append(trace, next)
    /\ UNCHANGED <<run, cfgFile, hostname, dirExists, repo, start>>

(***************************************************************************)
(* main, lines 29-32                                                       *)
(***************************************************************************)
\* os.IsNotExist(err) for os.Stat(path): the empty path never names a file.
StatNotExist(path, exists) == path = "" \/ ~exists

\* Results of os.MkdirAll(path, 0755).
MkdirAllOutcomes(path) == IF path = "" THEN {"mkdir error"} ELSE {Nil, "mkdir error"}

StatDirStep ==
    /\ pc = "statDir"
    /\ LET path == config.NotesDirectory IN
       IF StatNotExist(path, dirExists)
       THEN \E m \in MkdirAllOutcomes(path) :
               /\ ops' = ops \o <<Op("Stat", path, "", "not exist"),
                                  Op("MkdirAll", path, "", m)>>
               /\ log' = Append(log, "Creating directory")
               /\ dirExists' = (dirExists \/ m = Nil)
       ELSE /\ ops' = Append(ops, Op("Stat", path, "", Nil))
            /\ UNCHANGED <<log, dirExists>>
    /\ pc' = "openRepo"
    /\ trace' = Append(trace, "openRepo")
    /\ UNCHANGED <<run, cfgFile, hostname, config, err, repo, start, calls>>

(***************************************************************************)
(* main, lines 34-48                                                       *)
(***************************************************************************)
\* Results of git.PlainOpen(path).
PlainOpenOutcomes(exists, rp) ==
    IF exists /\ rp.exists THEN {Nil, "open error"}
    ELSE {ErrRepositoryNotExists, "open error"}

\* Every open failure taken for a missing repository.
AfterPlainOpen_AnyErrorInits(e) == IF e = Nil THEN "pull" ELSE "initRepo"

AfterPlainOpen(e) ==
    IF e = Nil THEN "pull"
    ELSE IF e = ErrRepositoryNotExists THEN "initRepo"
    ELSE "done"

OpenRepoStep ==
    /\ pc = "openRepo"
    /\ \E e \in PlainOpenOutcomes(dirExists, repo) :
          LET next == AfterPlainOpen(e) IN
          /\ err' = e
          /\ ops' = Append(ops, Op("PlainOpen", config.NotesDirectory, "", e))
          /\ log' = IF next = "done" THEN Append(log, "Failed to open repo") ELSE log
          /\ pc' = next
          /\ trace' = Append(trace, next)
    /\ UNCHANGED <<run, cfgFile, hostname, config, dirExists, repo, start, calls>>

\* The remote created under another name.
RemoteConfigOf_Upstream(url) == Remote("upstream", url)

\* The remote configuration setupRemote hands to CreateRemote.
RemoteConfigOf(url) == Remote("origin", url)

\* setupRemote(r, url): the outcomes of r.CreateRemote; an error is printed
\* and nothing is returned.
setupRemote(rp, url) ==
    { [ops  |-> <<Op("CreateRemote", RemoteConfigOf(url).name, RemoteConfigOf(url).url, e)>>,
       log  |-> IF e # Nil THEN <<"Remote setup">> ELSE <<>>,
       repo |-> IF e = Nil
                THEN [rp EXCEPT !.remotes = rp.remotes \cup {RemoteConfigOf(url)}]
                ELSE rp] :
      e \in {Nil, "remote error"} }

\* Results of git.PlainInit(path, false).
PlainInitOutcomes == {Nil, "init error"}

AfterPlainInit(e) == IF e # Nil THEN "done" ELSE "pull"

InitRepoStep ==
    /\ pc = "initRepo"
    /\ \E e \in PlainInitOutcomes :
          LET next == AfterPlainInit(e)
              initOp == Op("PlainInit", config.NotesDirectory, "", e)
          IN
          /\ err' = e
          /\ pc' = next
          /\ trace' = Append(trace, next)
          /\ IF next = "done"
             THEN /\ ops' = Append(ops, initOp)
                  /\ log' = log \o <<"Initializing new Git repository", "Init Failed">>
                  /\ UNCHANGED <<dirExists, repo, calls>>
             ELSE \E s \in setupRemote([FreshRepo EXCEPT !.dirty = repo.dirty],
                                        config.GithubRepoUrl) :
                  /\ ops' = Append(ops, initOp) \o s.ops
                  /\ log' = Append(log, "Initializing new Git repository") \o s.log
                  /\ dirExists' = TRUE
                  /\ repo' = s.repo
                  /\ calls' = Append(calls, Call("setupRemote", Nil))
    /\ UNCHANGED <<run, cfgFile, hostname, config, start>>

(***************************************************************************)
(* pullLatest and main, lines 50-53                                        *)
(***************************************************************************)
\* Results of w.Pull(&git.PullOptions{RemoteName: "origin"}).
PullOutcomes(rp) ==
    IF HasOrigin(rp) THEN {Nil, NoErrAlreadyUpToDate, ErrEmptyRemote, "pull error"}
    ELSE {"remote not found"}

\* What pullLatest returns for a result of w.Pull.
pullLatestReturn(e) ==
    IF e = NoErrAlreadyUpToDate THEN Nil
    ELSE IF e # Nil /\ e # ErrEmptyRemote THEN e
    ELSE Nil

\* A successful pull fast-forwards the current branch to the remote's commits.
PullEffect(rp, e) ==
    IF e = Nil
    THEN [rp EXCEPT !.commits = Append(rp.commits, RemoteCommit(rp.head)),
                    !.branches = rp.branches \cup {rp.head}]
    ELSE rp

pullLatest(rp) ==
    IF rp.bare
    THEN { [ret |-> ErrIsBareRepository,
            ops |-> <<Op("Worktree", "", "", ErrIsBareRepository)>>,
            log |-> <<>>, repo |-> rp] }
    ELSE { [ret |-> pullLatestReturn(e),
            ops |-> <<Op("Worktree", "", "", Nil), Op("Pull", "origin", "", e)>>,
            log |-> <<"Pulling latest changes">>
                    \o (IF e = NoErrAlreadyUpToDate
                        THEN <<"Local is already up to date">> ELSE <<>>),
            repo |-> PullEffect(rp, e)] :
           e \in PullOutcomes(rp) }

\* The value main tests at line 51: pullLatest's result is dropped at line 50,
\* so the test reads main's err as the open or init left it.
PullCheckedError(mainErr, pullRet) == mainErr

\* Branch enforcement placed right after the pull, ahead of commit and push.
AfterPull_BranchFirst(mainErr, pullRet) == "branch"

\* A pull failure that ends the run.
AfterPull_AbortOnError(mainErr, pullRet) == IF pullRet # Nil THEN "done" ELSE "commit"

\* A failed pull tried again.
AfterPull_RetryOnError(mainErr, pullRet) == IF pullRet # Nil THEN "pull" ELSE "commit"

\* Whatever pullLatest returned, main goes on to the commit step.
AfterPull(mainErr, pullRet) == "commit"

PullStep ==
    /\ pc = "pull"
    /\ \E p \in pullLatest(repo) :
          LET checked == PullCheckedError(err, p.ret)
              next == AfterPull(err, p.ret)
          IN
          /\ repo' = p.repo
          /\ ops' = ops \o p.ops
          /\ calls' = Append(calls, Call("pullLatest", p.ret))
          /\ log' = log \o p.log
                    \o (IF checked # Nil THEN <<"Pull Warning">> ELSE <<>>)
          /\ pc' = next
          /\ trace' = Append(trace, next)
    /\ UNCHANGED <<run, cfgFile, hostname, config, err, dirExists, start>>

(***************************************************************************)
(* autoCommit and main, lines 55-58                                        *)
(***************************************************************************)
\* time.Now().Format(time.DateTime), the clock being the run's number.
DateTime(t) == ToString(t)

\* The two arguments of the format in each other's place.
CommitMessage_ArgsSwapped(host, t) == <<"Sync: ", DateTime(t), " [", host, "]">>

\* fmt.Sprintf("Sync: %s [%s]", hostname, timestamp)
CommitMessage(host, t) == <<"Sync: ", host, " [", DateTime(t), "]">>

AuthorName == "Gotes Sync"
AuthorEmail == "sync@gotes.local"

\* A successful w.Commit: one more commit on the current branch, nothing
\* left to commit.
CommitEffect(rp, host, t) ==
    [rp EXCEPT !.commits = Append(rp.commits,
                                  [msg |-> CommitMessage(host, t), name |-> AuthorName,
                                   email |-> AuthorEmail, branch |-> rp.head]),
               !.branches = rp.branches \cup {rp.head},
               !.dirty = FALSE]

\* The clean test left out: every tree is staged and committed.
IsClean_Never(statusErr, rp) == FALSE

\* A failed status query taken for a tree with changes.
IsClean_OnlyOnAnswer(statusErr, rp) == statusErr = Nil /\ ~rp.dirty

\* status.IsClean() at line 127: a failed w.Status() leaves a nil status,
\* which is clean.
IsClean(statusErr, rp) == statusErr # Nil \/ ~rp.dirty

autoCommit(rp, host, t) ==
    IF rp.bare
    THEN { [ret |-> ErrIsBareRepository,
            ops |-> <<Op("Worktree", "", "", ErrIsBareRepository)>>,
            log |-> <<>>, repo |-> rp] }
    ELSE UNION { 
        LET pre == <<Op("Worktree", "", "", Nil), Op("Status", "", "", st)>> IN
        IF IsClean(st, rp)
        THEN { [ret |-> Nil, ops |-> pre, log |-> <<"Working tree clean">>, repo |-> rp] }
        ELSE { [ret |-> "add error",
                ops |-> Append(pre, Op("Add", "all", "", "add error")),
                log |-> <<>>, repo |-> rp],
               [ret |-> "commit error",
                ops |-> pre \o <<Op("Add", "all", "", Nil),
                                 Op("Commit", AuthorName, AuthorEmail, "commit error")>>,
                log |-> <<>>, repo |-> rp],
               [ret |-> Nil,
                ops |-> pre \o <<Op("Add", "all", "", Nil),
                                 Op("Commit", AuthorName, AuthorEmail, Nil)>>,
                log |-> <<"Changes committed locally">>,
                repo |-> CommitEffect(rp, host, t)] } :
        st \in {Nil, "status error"} }

\* Push attempted whatever the commit step returned.
AfterAutoCommit_AlwaysPush(e) == "push"

\* Branch enforcement straight after the commit step, the push left out.
AfterAutoCommit_SkipPush(e) == "branch"

AfterAutoCommit(e) == IF e # Nil THEN "branch" ELSE "push"

AutoCommitStep ==
    /\ pc = "commit"
    /\ \E c \in autoCommit(repo, hostname, run) :
          LET next == AfterAutoCommit(c.ret) IN
          /\ err' = c.ret
          /\ repo' = c.repo
          /\ ops' = ops \o c.ops
          /\ calls' = Append(calls, Call("autoCommit", c.ret))
          /\ log' = log \o c.log
                    \o (IF c.ret # Nil THEN <<"Commit skipped">> ELSE <<>>)
          /\ pc' = next
          /\ trace' = Append(trace, next)
    /\ UNCHANGED <<run, cfgFile, hostname, config, dirExists, start>>

(***************************************************************************)
(* pushToRemote and main, lines 59-62                                      *)
(***************************************************************************)
\* Results of r.Push: remote "origin", Force set.
PushOutcomes(rp) ==
    IF HasOrigin(rp) THEN {Nil, NoErrAlreadyUpToDate, "push error"}
    ELSE {"remote not found"}

\* The already-up-to-date result passed on as an error.
pushToRemote_UpToDateIsError(rp) ==
    { [ret |-> e,
       ops |-> <<Op("Push", "origin", "force", e)>>,
       log |-> <<"Syncing to GitHub">>
               \o (IF e = Nil THEN <<"Push successful">> ELSE <<>>)] :
      e \in PushOutcomes(rp) }

pushToRemote(rp) ==
    { [ret |-> IF e = NoErrAlreadyUpToDate THEN Nil ELSE e,
       ops |-> <<Op("Push", "origin", "force", e)>>,
       log |-> <<"Syncing to GitHub">>
               \o (IF e = NoErrAlreadyUpToDate THEN <<"GitHub is already up to date">>
                   ELSE IF e = Nil THEN <<"Push successful">>
                   ELSE <<>>)] :
      e \in PushOutcomes(rp) }

PushStep ==
    /\ pc = "push"
    /\ \E p \in pushToRemote(repo) :
          /\ err' = p.ret
          /\ ops' = ops \o p.ops
          /\ calls' = Append(calls, Call("pushToRemote", p.ret))
          /\ log' = log \o p.log
                    \o (IF p.ret # Nil THEN <<"Push Failed">> ELSE <<>>)
    /\ pc' = "branch"
    /\ trace' = Append(trace, "branch")
    /\ UNCHANGED <<run, cfgFile, hostname, config, dirExists, repo, start>>

(***************************************************************************)
(* ensureCorrectBranch and main, lines 65-69                               *)
(***************************************************************************)
\* The name main passes to ensureCorrectBranch (its parameter `hostname`).
BranchArgument(cfg, host) == cfg.BranchName

\* Results of w.Checkout for branch b: without Create the branch must exist;
\* with Create it must not, and HEAD must point at a commit to start it from.
CheckoutOutcomes(rp, b, create) ==
    IF create
    THEN IF b \notin rp.branches /\ rp.head \in rp.branches
         THEN {Nil, "checkout error"} ELSE {"checkout error"}
    ELSE IF b \in rp.branches
         THEN {Nil, "checkout error"} ELSE {"reference not found"}

\* The error of the first checkout returned even when the create succeeded.
ensureCorrectBranch_ReturnsFirstError(rp, b) ==
    IF rp.bare
    THEN { [ret |-> ErrIsBareRepository,
            ops |-> <<Op("Worktree", "", "", ErrIsBareRepository)>>,
            log |-> <<>>, repo |-> rp] }
    ELSE UNION {
        IF e1 = Nil
        THEN { [ret |-> Nil,
                ops |-> <<Op("Worktree", "", "", Nil), Op("Checkout", b, "", e1)>>,
                log |-> <<>>,
                repo |-> [rp EXCEPT !.head = b]] }
        ELSE { [ret |-> e1,
                ops |-> <<Op("Worktree", "", "", Nil), Op("Checkout", b, "", e1),
                          Op("Checkout", b, "create", e2)>>,
                log |-> <<"Creating branch for machine">>,
                repo |-> IF e2 = Nil
                         THEN [rp EXCEPT !.head = b, !.branches = rp.branches \cup {b}]
                         ELSE rp] :
               e2 \in CheckoutOutcomes(rp, b, TRUE) } :
        e1 \in CheckoutOutcomes(rp, b, FALSE) }

ensureCorrectBranch(rp, b) ==
    IF rp.bare
    THEN { [ret |-> ErrIsBareRepository,
            ops |-> <<Op("Worktree", "", "", ErrIsBareRepository)>>,
            log |-> <<>>, repo |-> rp] }
    ELSE UNION {
        IF e1 = Nil
        THEN { [ret |-> Nil,
                ops |-> <<Op("Worktree", "", "", Nil), Op("Checkout", b, "", e1)>>,
                log |-> <<>>,
                repo |-> [rp EXCEPT !.head = b]] }
        ELSE { [ret |-> e2,
                ops |-> <<Op("Worktree", "", "", Nil), Op("Checkout", b, "", e1),
                          Op("Checkout", b, "create", e2)>>,
                log |-> <<"Creating branch for machine">>,
                repo |-> IF e2 = Nil
                         THEN [rp EXCEPT !.head = b, !.branches = rp.branches \cup {b}]
                         ELSE rp] :
               e2 \in CheckoutOutcomes(rp, b, TRUE) } :
        e1 \in CheckoutOutcomes(rp, b, FALSE) }

\* The other ordering: branch enforcement may run once the pull is over,
\* ahead of the commit step.
EnsureBranchStep_BeforeCommit ==
    /\ pc \in {"commit", "branch"}
    /\ \A i \in 1..Len(calls) : calls[i].fn # "ensureCorrectBranch"
    /\ \E c \in ensureCorrectBranch(repo, BranchArgument(config, hostname)) :
          /\ err' = c.ret
          /\ repo' = c.repo
          /\ ops' = ops \o c.ops
          /\ calls' = Append(calls, Call("ensureCorrectBranch", c.ret))
          /\ log' = log \o c.log
                    \o (IF c.ret # Nil THEN <<"Branch Error">> ELSE <<>>)
    /\ pc' = IF pc = "commit" THEN "commit" ELSE "done"
    /\ trace' = IF pc = "commit" THEN trace ELSE Append(trace, "done")
    /\ UNCHANGED <<run, cfgFile, hostname, config, dirExists, start>>

EnsureBranchStep ==
    /\ pc = "branch"
    /\ \E c \in ensureCorrectBranch(repo, BranchArgument(config, hostname)) :
          /\ err' = c.ret
          /\ repo' = c.repo
          /\ ops' = ops \o c.ops
          /\ calls' = Append(calls, Call("ensureCorrectBranch", c.ret))
          /\ log' = log \o c.log
                    \o (IF c.ret # Nil THEN <<"Branch Error">> ELSE <<>>)
    /\ pc' = "done"
    /\ trace' = Append(trace, "done")
    /\ UNCHANGED <<run, cfgFile, hostname, config, dirExists, start>>

(***************************************************************************)
(* The program is invoked again (by the user or an external scheduler);    *)
(* the notes may have been edited since the run before                     *)
(***************************************************************************)
\* Notes can be edited where there is a directory with a working tree; an
\* edit to a tree that already has changes leaves it as it is.
Editable(exists, rp) == exists /\ ~rp.bare /\ ~rp.dirty

NextRun ==
    /\ pc = "done"
    /\ run < MaxRuns
    /\ run' = run + 1
    /\ pc' = "loadConfig"
    /\ config' = ZeroConfig
    /\ err' = Nil
    /\ \E edit \in {FALSE} \cup (IF Editable(dirExists, repo) THEN {TRUE} ELSE {}) :
          /\ repo' = IF edit THEN [repo EXCEPT !.dirty = TRUE] ELSE repo
          /\ start' = [dirExists |-> dirExists, repo |-> repo',
                       prev |-> [ran |-> TRUE, head |-> StartHeadOf(start),
                                 commitOk |-> CommitSucceeded(calls),
                                 edited |-> edit]]
    /\ ops' = <<>>
    /\ calls' = <<>>
    /\ log' = <<>>
    /\ trace' = <<"loadConfig">>
    /\ UNCHANGED <<cfgFile, hostname, dirExists>>

Next ==
    \/ LoadConfigStep
    \/ StatDirStep
    \/ OpenRepoStep
    \/ InitRepoStep
    \/ PullStep
    \/ AutoCommitStep
    \/ PushStep
    \/ EnsureBranchStep
    \/ NextRun

Spec == Init /\ [][Next]_vars

\* The statements of main: every call it makes blocks and returns, so a run
\* that has a next statement executes it.  Starting another run is up to
\* whoever invokes the program.
RunStep ==
    \/ LoadConfigStep
    \/ StatDirStep
    \/ OpenRepoStep
    \/ InitRepoStep
    \/ PullStep
    \/ AutoCommitStep
    \/ PushStep
    \/ EnsureBranchStep

FairSpec == Spec /\ WF_vars(RunStep)

TypeOK ==
    /\ pc \in {"loadConfig", "statDir", "openRepo", "initRepo", "pull", "commit",
               "push", "branch", "done"}
    /\ run \in 1..MaxRuns
    /\ repo.exists => dirExists

(***************************************************************************)
(* Vocabulary of the properties                                            *)
(***************************************************************************)
OpIdx == 1..Len(ops)

Invoked(o) == \E i \in OpIdx : ops[i].op = o

InvokedWith(o, res) == \E i \in OpIdx : ops[i].op = o /\ ops[i].res = res

Called(f) == \E i \in 1..Len(calls) : calls[i].fn = f

Returned(f, ret) == \E i \in 1..Len(calls) : calls[i].fn = f /\ calls[i].ret = ret

ReturnedError(f) == \E i \in 1..Len(calls) : calls[i].fn = f /\ calls[i].ret # Nil

Printed(l) == \E i \in 1..Len(log) : log[i] = l

Visited(p) == \E i \in 1..Len(trace) : trace[i] = p

ConfigOps == {"ReadFile", "Unmarshal"}

\* Operations on the repository and its directory.
RepoOps == {"MkdirAll", "PlainOpen", "PlainInit", "CreateRemote", "Worktree", "Pull",
            "Status", "Add", "Commit", "Push", "Checkout"}

NoRepoWork ==
    /\ \A i \in OpIdx : ops[i].op \notin RepoOps
    /\ repo = start.repo
    /\ dirExists = start.dirExists

\* The configuration file parses and has both required fields.
CompleteConfig ==
    cfgFile.status = "ok" /\ {KeyUrl, KeyDir} \subseteq DOMAIN cfgFile.doc

\* The repository was opened or initialized successfully in this run.
Provisioned == InvokedWith("PlainOpen", Nil) \/ InvokedWith("PlainInit", Nil)

(***************************************************************************)
(* C1                                                                      *)
(***************************************************************************)
\* The stage of the run an external operation belongs to; Worktree only
\* fetches the handle the pull, commit and branch stages work through.
StageOfOp(o) ==
    IF o \in ConfigOps THEN 1
    ELSE IF o \in {"Stat", "MkdirAll", "PlainOpen", "PlainInit", "CreateRemote"} THEN 2
    ELSE IF o = "Pull" THEN 3
    ELSE IF o \in {"Status", "Add", "Commit"} THEN 4
    ELSE IF o = "Push" THEN 5
    ELSE 6

\* The transitions of the per-run state machine, by position of main.
StageEdges ==
    { <<"loadConfig", "statDir">>, <<"loadConfig", "done">>,
      <<"statDir", "openRepo">>,
      <<"openRepo", "pull">>, <<"openRepo", "initRepo">>, <<"openRepo", "done">>,
      <<"initRepo", "pull">>, <<"initRepo", "done">>,
      <<"pull", "commit">>,
      <<"commit", "push">>, <<"commit", "branch">>,
      <<"push", "branch">>,
      <<"branch", "done">> }

\* C1: in every run the stages follow Start -> ConfigLoaded -> RepoReady ->
\* Pulled -> commit step -> push step -> BranchEnsured -> End: the positions
\* visited follow the machine's transitions and none is visited twice, the
\* external operations occur in stage order, and pull, commit, push and
\* checkout each come after a successful open or init and after the stage
\* before them was passed.
C1_StageOrder ==
    /\ trace[1] = "loadConfig"
    /\ trace[Len(trace)] = pc
    /\ \A i \in 1..(Len(trace) - 1) : <<trace[i], trace[i + 1]>> \in StageEdges
    /\ \A i, j \in 1..Len(trace) : i # j => trace[i] # trace[j]
    /\ LET staged == SelectSeq(ops, LAMBDA o : o.op # "Worktree") IN
          \A i \in 1..(Len(staged) - 1) :
             StageOfOp(staged[i].op) <= StageOfOp(staged[i + 1].op)
    /\ \A i \in OpIdx :
          /\ ops[i].op \in {"Pull", "Status", "Add", "Commit", "Push", "Checkout"}
                => \E k \in 1..(i - 1) :
                      ops[k].op \in {"PlainOpen", "PlainInit"} /\ ops[k].res = Nil
          /\ ops[i].op \in {"Status", "Add", "Commit"} => Called("pullLatest")
          /\ ops[i].op = "Push" => Called("autoCommit")
          /\ ops[i].op = "Checkout" => Called("autoCommit") /\ Visited("branch")
    /\ \A o \in {"PlainOpen", "PlainInit", "Pull", "Commit", "Push"} :
          Cardinality({ i \in OpIdx : ops[i].op = o }) <= 1

\* A run that went through every stage: pull, commit, push and checkout.
C1_Witness ==
    /\ pc = "done"
    /\ trace = <<"loadConfig", "statDir", "openRepo", "pull", "commit", "push",
                 "branch", "done">>
    /\ Invoked("Pull") /\ InvokedWith("Commit", Nil) /\ Invoked("Push")
    /\ InvokedWith("Checkout", Nil)

(***************************************************************************)
(* C2                                                                      *)
(***************************************************************************)
\* C2: when the configuration file is missing, unreadable or malformed,
\* loadConfig returns an error, the run ends at once with a
\* "Configuration Error" line and no operation touches the directory or the
\* repository.
C2_ConfigFailureAborts ==
    (cfgFile.status # "ok" /\ pc # "loadConfig")
       => /\ ReturnedError("loadConfig")
          /\ pc = "done"
          /\ log = <<"Configuration Error">>
          /\ NoRepoWork

C2_Witness ==
    /\ pc = "done"
    /\ cfgFile.status = "malformed"
    /\ start.repo.exists /\ start.repo.dirty
    /\ Printed("Configuration Error")

(***************************************************************************)
(* C3                                                                      *)
(***************************************************************************)
\* C3: a run on a well-formed configuration document that lacks
\* github_repo_url or notes_directory ends with a configuration error and
\* without any repository operation.
C3_MissingFieldIsConfigError ==
    (/\ cfgFile.status = "ok"
     /\ (KeyUrl \notin DOMAIN cfgFile.doc \/ KeyDir \notin DOMAIN cfgFile.doc)
     /\ pc = "done")
       => /\ ReturnedError("loadConfig")
          /\ Printed("Configuration Error")
          /\ NoRepoWork

(***************************************************************************)
(* C4                                                                      *)
(***************************************************************************)
\* The branch the configuration asks for: the override, or the hostname.
ConfiguredBranch ==
    IF KeyBranch \in DOMAIN cfgFile.doc THEN cfgFile.doc[KeyBranch] ELSE hostname

\* C4: every checkout of branch enforcement names the configured branch_name
\* or, when the configuration has no branch_name, the machine's hostname
\* (stated for runs whose configuration has both required fields).
C4_BranchIsOverrideOrHostname ==
    CompleteConfig
       => \A i \in OpIdx : ops[i].op = "Checkout" => ops[i].a1 = ConfiguredBranch

(***************************************************************************)
(* C5                                                                      *)
(***************************************************************************)
\* C5: whenever pullLatest has returned an error (a pull failure other than
\* "already up to date" and "empty remote"), a "Pull Warning" line has been
\* printed by the time the commit step starts (stated for runs whose
\* configuration has both required fields).
C5_PullFailureIsLogged ==
    (CompleteConfig /\ ReturnedError("pullLatest")) => Printed("Pull Warning")

(***************************************************************************)
(* C6                                                                      *)
(***************************************************************************)
\* C6: once the repository has been opened or initialized, the run does not
\* leave the pull stage without reaching the commit step, whatever remote
\* creation and pull returned.
C6_CommitStepReached ==
    Provisioned => (pc = "pull" \/ Visited("commit"))

\* The commit step reached after remote creation and pull both failed.
C6_Witness ==
    /\ pc = "commit"
    /\ InvokedWith("CreateRemote", "remote error")
    /\ ReturnedError("pullLatest")

(***************************************************************************)
(* C7                                                                      *)
(***************************************************************************)
\* C7: when autoCommit returns an error, push is not attempted in that run
\* and the run goes on to branch enforcement.
C7_CommitFailureSkipsPush ==
    ReturnedError("autoCommit")
       => /\ ~Invoked("Push")
          /\ ~Called("pushToRemote")
          /\ ~Visited("push")
          /\ pc \in {"branch", "done"}
          /\ pc = "done" => Called("ensureCorrectBranch")

\* A run whose commit failed and whose branch enforcement still checked out.
C7_Witness ==
    /\ pc = "done"
    /\ Returned("autoCommit", "commit error")
    /\ Invoked("Checkout")

(***************************************************************************)
(* C8                                                                      *)
(***************************************************************************)
\* C8: an open failure other than "repository does not exist", and a failed
\* init, are the last operation of the run: the run is over and nothing was
\* invoked afterwards.
C8_ProvisionFailureAborts ==
    \A i \in OpIdx :
        (\/ ops[i].op = "PlainOpen" /\ ops[i].res \notin {Nil, ErrRepositoryNotExists}
         \/ ops[i].op = "PlainInit" /\ ops[i].res # Nil)
           => /\ i = Len(ops)
              /\ pc = "done"
              /\ repo = start.repo
              /\ ~Called("pullLatest") /\ ~Called("autoCommit")
              /\ ~Called("pushToRemote") /\ ~Called("ensureCorrectBranch")

\* A run ended by an open failure on an existing repository.
C8_Witness ==
    /\ pc = "done"
    /\ start.repo.exists
    /\ InvokedWith("PlainOpen", "open error")
    /\ Printed("Failed to open repo")

(***************************************************************************)
(* C9                                                                      *)
(***************************************************************************)
\* C9: a failed creation of the notes directory is the last operation of the
\* run: nothing is invoked after it (stated for runs whose configuration has
\* both required fields).
C9_MkdirFailureIsFatal ==
    CompleteConfig
       => \A i \in OpIdx :
             (ops[i].op = "MkdirAll" /\ ops[i].res # Nil) => i = Len(ops)

(***************************************************************************)
(* C10                                                                     *)
(***************************************************************************)
\* C10: a directory found missing is created before the open; when the open
\* finds no repository, init follows and, once it succeeded, exactly one
\* remote is created, named "origin" with the configured URL, and it is the
\* repository's only remote; when the open succeeds, the run invokes neither
\* init nor remote creation and leaves the remotes as they were.
C10_ProvisioningCreatesOrigin ==
    /\ \A i \in OpIdx :
          /\ (ops[i].op = "Stat" /\ ops[i].res # Nil /\ i < Len(ops))
                => ops[i + 1].op = "MkdirAll" /\ ops[i + 1].a1 = config.NotesDirectory
          /\ (ops[i].op = "MkdirAll" /\ ops[i].res = Nil) => dirExists
          /\ (ops[i].op = "PlainOpen" /\ ops[i].res = ErrRepositoryNotExists
              /\ pc # "initRepo")
                => i < Len(ops) /\ ops[i + 1].op = "PlainInit"
          /\ (ops[i].op = "PlainInit" /\ ops[i].res = Nil)
                => /\ i < Len(ops)
                   /\ ops[i + 1].op = "CreateRemote"
                   /\ ops[i + 1].a1 = "origin"
                   /\ ops[i + 1].a2 = config.GithubRepoUrl
                   /\ dirExists /\ repo.exists
                   /\ repo.remotes = IF ops[i + 1].res = Nil
                                     THEN {Remote("origin", config.GithubRepoUrl)}
                                     ELSE {}
    /\ Cardinality({ i \in OpIdx : ops[i].op = "CreateRemote" }) <= 1
    /\ InvokedWith("PlainOpen", Nil)
          => /\ ~Invoked("PlainInit")
             /\ ~Invoked("CreateRemote")
             /\ repo.remotes = start.repo.remotes

\* A run that found no directory, created it, initialized a repository and
\* attached origin.
C10_Witness ==
    /\ pc = "done"
    /\ ~start.dirExists
    /\ InvokedWith("MkdirAll", Nil)
    /\ InvokedWith("PlainInit", Nil)
    /\ InvokedWith("CreateRemote", Nil)
    /\ repo.remotes = {Remote("origin", "url1")}

(***************************************************************************)
(* C11                                                                     *)
(***************************************************************************)
\* The operations the step being taken adds to this run's operations.
NewOps == SubSeq(ops', Len(ops) + 1, Len(ops'))

\* C11: a commit step that starts on a repository with a clean working tree
\* invokes neither staging nor commit, leaves the repository and its commit
\* history as they were, prints that the tree is clean and returns no error.
C11_CleanTreeCommitsNothing ==
    [][(pc = "commit" /\ ~repo.bare /\ ~repo.dirty)
          => /\ \A i \in 1..Len(NewOps) : NewOps[i].op \notin {"Add", "Commit"}
             /\ repo'.commits = repo.commits
             /\ repo' = repo
             /\ err' = Nil
             /\ calls' = Append(calls, Call("autoCommit", Nil))
             /\ log' = Append(log, "Working tree clean")]_vars

\* The commit step has run on a clean tree whose status query answered.
C11_Witness ==
    /\ pc = "push"
    /\ ~repo.dirty /\ ~start.repo.dirty
    /\ repo.commits # <<>>
    /\ InvokedWith("Status", Nil)
    /\ Printed("Working tree clean")

(***************************************************************************)
(* C12                                                                     *)
(***************************************************************************)
\* The commits the repository has gained since the run began.
NewCommits == SubSeq(repo.commits, Len(start.repo.commits) + 1, Len(repo.commits))

\* Those of them the run produced itself (the others were pulled).
Produced == { i \in 1..Len(NewCommits) : NewCommits[i] # RemoteCommit(NewCommits[i].branch) }

\* C12: a commit step that finds uncommitted changes stages all of them and
\* then commits; when staging and commit succeed the run has produced exactly
\* one commit, with message "Sync: <hostname> [<timestamp>]" and author
\* "Gotes Sync" <sync@gotes.local>, and nothing is left uncommitted; no run
\* produces more than one commit.
C12_OneSyncCommit ==
    /\ Cardinality(Produced) <= 1
    /\ Cardinality({ i \in OpIdx : ops[i].op = "Commit" }) <= 1
    /\ (Called("autoCommit") /\ ~start.repo.bare /\ start.repo.dirty
        /\ InvokedWith("Status", Nil))
          => \E i \in OpIdx : ops[i].op = "Add" /\ ops[i].a1 = "all"
    /\ InvokedWith("Add", Nil) => Invoked("Commit")
    /\ \A i \in OpIdx :
          ops[i].op = "Commit" => i > 1 /\ ops[i - 1] = Op("Add", "all", "", Nil)
    /\ InvokedWith("Commit", Nil)
          => /\ Cardinality(Produced) = 1
             /\ Returned("autoCommit", Nil)
             /\ ~repo.dirty
             /\ \A i \in Produced :
                   /\ Len(NewCommits[i].msg) = 5
                   /\ NewCommits[i].msg[1] = "Sync: "
                   /\ NewCommits[i].msg[2] = hostname
                   /\ NewCommits[i].msg[3] = " ["
                   /\ NewCommits[i].msg[4] = ToString(run)
                   /\ NewCommits[i].msg[5] = "]"
                   /\ NewCommits[i].name = "Gotes Sync"
                   /\ NewCommits[i].email = "sync@gotes.local"
    /\ ~InvokedWith("Commit", Nil) => Produced = {}

\* A run that pulled a commit and then produced its own on a changed tree.
C12_Witness ==
    /\ pc = "done"
    /\ start.repo.dirty
    /\ InvokedWith("Pull", Nil)
    /\ InvokedWith("Commit", Nil)
    /\ Len(NewCommits) = 2
    /\ Cardinality(Produced) = 1

(***************************************************************************)
(* C13                                                                     *)
(***************************************************************************)
\* C13: in a run that follows a run whose commit step returned success, with
\* no file changed in between, no commit is produced (stated for runs whose
\* configuration has both required fields).
C13_SecondRunProducesNoCommit ==
    (CompleteConfig /\ start.prev.ran /\ start.prev.commitOk
     /\ ~start.prev.edited)
       => Produced = {}

(***************************************************************************)
(* C14                                                                     *)
(***************************************************************************)
\* The checkouts of this run, in order.
Checkouts == SelectSeq(ops, LAMBDA o : o.op = "Checkout")

\* C14: branch enforcement first checks out without Create; a checkout with
\* Create is attempted only after that one failed, and at most once; the run
\* reports a Branch Error when the create attempt failed too, and none when
\* either checkout succeeded.
C14_CheckoutThenCreate ==
    /\ Len(Checkouts) <= 2
    /\ Len(Checkouts) >= 1 => Checkouts[1].a2 = ""
    /\ Len(Checkouts) = 2
          => /\ Checkouts[1].res # Nil
             /\ Checkouts[2].a2 = "create"
             /\ Checkouts[2].a1 = Checkouts[1].a1
    /\ (Len(Checkouts) >= 1 /\ Checkouts[1].res = Nil)
          => /\ Len(Checkouts) = 1
             /\ repo.branches = start.repo.branches
                                   \cup { NewCommits[i].branch : i \in 1..Len(NewCommits) }
    /\ (Len(Checkouts) >= 1 /\ Checkouts[1].res # Nil) => Len(Checkouts) = 2
    /\ (Len(Checkouts) = 2 /\ Checkouts[2].res # Nil)
          => /\ pc = "done"
             /\ Printed("Branch Error")
             /\ ReturnedError("ensureCorrectBranch")
    /\ (\E i \in 1..Len(Checkouts) : Checkouts[i].res = Nil)
          => /\ pc = "done"
             /\ ~Printed("Branch Error")
             /\ Returned("ensureCorrectBranch", Nil)
             /\ repo.head = Checkouts[1].a1

\* The branch did not exist: the first checkout failed, the create succeeded.
C14_Witness ==
    /\ pc = "done"
    /\ Len(Checkouts) = 2
    /\ Checkouts[1].a1 = "work"
    /\ Checkouts[2].res = Nil
    /\ "work" \notin start.repo.branches
    /\ "work" \in repo.branches
    /\ repo.head = "work"

(***************************************************************************)
(* C15                                                                     *)
(***************************************************************************)
\* The pushes of this run, in order.
Pushes == SelectSeq(ops, LAMBDA o : o.op = "Push")

\* C15: every push names the remote "origin" and sets Force; a push that
\* succeeded or found the remote already up to date reports no push error;
\* any other result is printed as "Push Failed" and the run goes on to branch
\* enforcement without pushing again.
C15_PushIsForcedAndNonFatal ==
    /\ Len(Pushes) <= 1
    /\ \A i \in 1..Len(Pushes) :
          /\ Pushes[i].a1 = "origin"
          /\ Pushes[i].a2 = "force"
          /\ pc \in {"branch", "done"}
          /\ pc = "done" => Called("ensureCorrectBranch")
          /\ Pushes[i].res \in {Nil, NoErrAlreadyUpToDate}
                => Returned("pushToRemote", Nil) /\ ~Printed("Push Failed")
          /\ Pushes[i].res = NoErrAlreadyUpToDate
                => Printed("GitHub is already up to date")
          /\ Pushes[i].res \notin {Nil, NoErrAlreadyUpToDate}
                => Returned("pushToRemote", Pushes[i].res) /\ Printed("Push Failed")

\* A failed push followed by a successful checkout.
C15_Witness ==
    /\ pc = "done"
    /\ InvokedWith("Push", "push error")
    /\ Printed("Push Failed")
    /\ InvokedWith("Checkout", Nil)

(***************************************************************************)
(* C16                                                                     *)
(***************************************************************************)
CountOps(o) == Cardinality({ i \in OpIdx : ops[i].op = o })

CountCalls(f) == Cardinality({ i \in 1..Len(calls) : calls[i].fn = f })

\* C16 as claimed: pull and push are each invoked at most once in a run, and
\* pull is invoked exactly once in every run that opened or initialized the
\* repository (stated for runs whose configuration has both required fields,
\* once the pull stage is over).
C16_PullExactlyOnceWhenProvisioned ==
    /\ CountOps("Pull") <= 1
    /\ CountOps("Push") <= 1
    /\ (CompleteConfig /\ Provisioned /\ pc # "pull") => CountOps("Pull") = 1

\* C16 as amended: pull and push are each invoked at most once in a run;
\* in every run that opened or initialized the repository pullLatest is
\* called exactly once, and it invokes the pull exactly once unless the
\* repository is bare, where it returns before pulling.
C16_NoRetry ==
    /\ CountOps("Pull") <= 1
    /\ CountOps("Push") <= 1
    /\ CountCalls("pullLatest") <= 1
    /\ CountCalls("pushToRemote") <= 1
    /\ (Provisioned /\ pc # "pull")
          => /\ CountCalls("pullLatest") = 1
             /\ repo.bare => CountOps("Pull") = 0
             /\ ~repo.bare => CountOps("Pull") = 1

\* Pull and push both failed and neither was tried again.
C16_Witness ==
    /\ pc = "done"
    /\ InvokedWith("Pull", "pull error")
    /\ InvokedWith("Push", "push error")
    /\ CountOps("Pull") = 1
    /\ CountOps("Push") = 1

(***************************************************************************)
(* C17                                                                     *)
(***************************************************************************)
\* C17: every run, whatever the outcomes of its calls, reaches the end of
\* main.
C17_EveryRunTerminates == (pc # "done") ~> (pc = "done")

\* A run that ended after failures of remote creation, pull, commit and
\* checkout.
C17_Witness ==
    /\ pc = "done"
    /\ InvokedWith("CreateRemote", "remote error")
    /\ ReturnedError("pullLatest")
    /\ ReturnedError("autoCommit")
    /\ Printed("Branch Error")

(***************************************************************************)
(* C18                                                                     *)
(***************************************************************************)
\* The branch checked out when this run began.
StartHead == StartHeadOf(start)

\* C18: until branch enforcement has run, the current branch is the one the
\* run began on: the run's commit lands on that branch and its push comes
\* before any checkout; no other branch receives a commit of this run, and
\* the current branch changes only at the end of the run, to the branch that
\* branch enforcement was given.
C18_SyncOnStartingBranch ==
    /\ pc # "done" => repo.head = StartHead
    /\ \A i \in Produced : NewCommits[i].branch = StartHead
    /\ \A j \in OpIdx :
          ops[j].op = "Checkout"
             => \A i \in OpIdx : ops[i].op \in {"Commit", "Push"} => i < j
    /\ repo.head # StartHead
          => /\ pc = "done"
             /\ InvokedWith("Checkout", Nil)
             /\ repo.head = BranchArgument(config, hostname)

\* The sync commits among a sequence of commits that are on branch b.
SyncCommitsOn(cs, b) ==
    { i \in 1..Len(cs) : cs[i].name = AuthorName /\ cs[i].branch = b }

\* A second run committing on the configured branch for the first time, the
\* run before it having begun on another branch and switched at its end.
C18_Witness ==
    /\ run = 2
    /\ start.prev.head = "master"
    /\ config.BranchName = "work"
    /\ StartHead = "work"
    /\ SyncCommitsOn(start.repo.commits, "work") = {}
    /\ SyncCommitsOn(start.repo.commits, "master") # {}
    /\ SyncCommitsOn(repo.commits, "work") # {}

(***************************************************************************)
(* C19                                                                     *)
(***************************************************************************)
\* C19: a commit step that found the tree clean returned no error, and once
\* the run is past the push stage a push was attempted exactly if the commit
\* step was reached and returned no error, with or without a new commit.
C19_PushIffCommitStepSucceeded ==
    /\ Printed("Working tree clean") => Returned("autoCommit", Nil)
    /\ Invoked("Push") => Returned("autoCommit", Nil)
    /\ (pc \in {"branch", "done"} /\ Returned("autoCommit", Nil))
          => (Called("pushToRemote") /\ Invoked("Push"))
    /\ (pc \in {"branch", "done"} /\ ~Returned("autoCommit", Nil))
          => (~Called("pushToRemote") /\ ~Invoked("Push"))

\* A finished run whose status query answered for a clean tree: nothing was
\* committed and the push was attempted.
C19_Witness ==
    /\ pc = "done"
    /\ InvokedWith("Status", Nil)
    /\ Printed("Working tree clean")
    /\ ~Invoked("Commit")
    /\ Produced = {}
    /\ Invoked("Push")

(***************************************************************************)
(* C20                                                                     *)
(***************************************************************************)
\* C20: a failed status query is not reported: the tree is taken for clean,
\* nothing is staged or committed, the commit step returns no error and
\* prints no "Commit skipped", and the push is attempted.
C20_StatusFailureIsSilent ==
    InvokedWith("Status", "status error")
       => /\ ~Invoked("Add")
          /\ ~Invoked("Commit")
          /\ Produced = {}
          /\ Returned("autoCommit", Nil)
          /\ Printed("Working tree clean")
          /\ ~Printed("Commit skipped")
          /\ pc \in {"push", "branch", "done"}
          /\ pc \in {"branch", "done"} => Invoked("Push")

\* A finished run over a tree with changes whose status query failed: the
\* changes are still there and the push was attempted.
C20_Witness ==
    /\ pc = "done"
    /\ start.repo.dirty
    /\ InvokedWith("Status", "status error")
    /\ repo.dirty
    /\ Invoked("Push")
====
